---- MODULE Spec2Model ----
(***************************************************************************)
(* Authentication and session-token subsystem of the contacts backend:    *)
(* the Users table (Directory), the redis identity cache, the JWT codec   *)
(* of services/auth.py and the handlers of routes/auth.py and             *)
(* routes/users.py.                                                        *)
(*                                                                         *)
(* Spec      one request at a time: every handler runs from its first     *)
(*           line to its response as one step (the handler bodies hold no *)
(*           suspension point, so one event loop runs them this way).     *)
(* SpecConc  several workers on one database: each worker handles one     *)
(*           refresh request, split at its Directory read and its         *)
(*           Directory write; the requests around them run as in Spec.    *)
(* SpecCache the routes with the identity cache and the avatar update,    *)
(*           the clients presenting the tokens that were minted.          *)
(* SpecOutage  the same with a redis service that may stop answering.     *)
(* SpecTtl   identity resolution on several workers, split between its    *)
(*           cache write and its expiry command.                          *)
(* SpecSignup  signup on several workers, split between its existence     *)
(*           check and the creation of the row.                           *)
(***************************************************************************)
EXTENDS Integers, FiniteSets, Sequences, TLC

\* ------------------------------------------------------------------ bounds
MaxTicks == 2
MaxContacts == 2

Emails == {"a@x.com", "b@x.com"}
Passwords == {"pw", "password"}
Workers == {"w1", "w2"}

\* ------------------------------------------------------------ null values
None == [none |-> TRUE]
NoEmail == "-"

\* ------------------------------------------------------------------ state
VARIABLES
  users,    \* Users table: email -> row, or None when no row has that email
  cache,    \* redis: email -> None, or the entry stored under "user:"+email
  now,      \* the wall clock, [sec, frac]: seconds and a sub-second part
  past,     \* the seconds the clock has shown so far, the present one included
  issued,   \* every access and refresh token returned in a response so far
  last,     \* the response of the most recent request
  scenB,    \* progress of the sequence login, refresh, refresh (one token)
  scenA,    \* progress of the sequence signup, login, confirm, login
  req,      \* SpecConc: the refresh request each worker is handling
  run,      \* fixed per behaviour: the emails its clients use, the histories it records
  contacts, \* Contacts table: its rows and the last id its sequence gave out
  limiter,  \* redis: the rate limiter's key of the route this behaviour counts
  admitted  \* the seconds at which the last requests to that route were let through

vars == <<users, cache, now, past, issued, last, scenB, scenA, req, run,
          contacts, limiter, admitted>>

\* ------------------------------------------------------------------- time
SECONDS_PER_MINUTE == 60
SECONDS_PER_DAY == 86400
ACCESS_MINUTES == 15
REFRESH_DAYS == 7
EMAIL_DAYS == 7
CACHE_TTL == 900

utcnow == now

\* datetime + timedelta(seconds=s)
plus(dt, s) == [sec |-> dt.sec + s, frac |-> dt.frac]

\* calendar.timegm(dt.utctimetuple()): whole seconds, the sub-second part is dropped
timegm(dt) == dt.sec

\* dt1 <= dt2 on the wall clock
before_or_at(dt1, dt2) ==
  \/ dt1.sec < dt2.sec
  \/ dt1.sec = dt2.sec /\ dt1.frac <= dt2.frac

\* ------------------------------------------------------ credential hasher
get_hashed_password(password) == [bcrypt |-> password]

verify_password(password, hashed_password) == hashed_password.bcrypt = password

\* ------------------------------------------------------------ token codec
SECRET_KEY == "3efdb0bd"
ALGORITHM == "HS256"

Scopes == {"access token", "refresh token", "email token"}

\* HMAC over the payload under a key
hmac(key, payload) == [key |-> key, over |-> payload]

\* jose.jwt.encode: datetime claims become whole seconds, then header.payload.signature
jwt_encode(to_encode, key, algorithm) ==
  LET payload == [sub |-> to_encode.sub, scope |-> to_encode.scope,
                  iat |-> timegm(to_encode.iat), exp |-> timegm(to_encode.exp)]
  IN [alg |-> algorithm, payload |-> payload, sig |-> hmac(key, payload)]

\* jose.JWTError(message); ExpiredSignatureError is a subclass of it
JWTError(message) == [error |-> "JWTError", message |-> message]

\* except JWTError:
IsJWTError(payload) == "error" \in DOMAIN payload

\* jose.jwt.decode: a string that is no JWS, a signature that does not verify and
\* exp < now all raise JWTError, each with its own message
jwt_decode(token, key, algorithm) ==
  IF "payload" \notin DOMAIN token THEN JWTError("Not enough segments")
  ELSE IF token.alg # algorithm \/ token.sig # hmac(key, token.payload)
  THEN JWTError("Signature verification failed.")
  ELSE IF token.payload.exp < timegm(utcnow) THEN JWTError("Signature has expired.")
  ELSE token.payload

create_access_token(data) ==
  LET current_time == utcnow
      expire == plus(current_time, ACCESS_MINUTES * SECONDS_PER_MINUTE)
  IN jwt_encode([sub |-> data.sub, iat |-> current_time, exp |-> expire,
                 scope |-> "access token"], SECRET_KEY, ALGORITHM)

create_refresh_token(data) ==
  LET current_time == utcnow
      expire == plus(current_time, REFRESH_DAYS * SECONDS_PER_DAY)
  IN jwt_encode([sub |-> data.sub, iat |-> current_time, exp |-> expire,
                 scope |-> "refresh token"], SECRET_KEY, ALGORITHM)

create_email_token(data) ==
  LET current_time == utcnow
      expire == plus(current_time, EMAIL_DAYS * SECONDS_PER_DAY)
  IN jwt_encode([sub |-> data.sub, iat |-> current_time, exp |-> expire,
                 scope |-> "email token"], SECRET_KEY, ALGORITHM)

\* HTTPException(status_code, detail)
HTTPException(status_code, detail) ==
  [raised |-> TRUE, status |-> status_code, detail |-> detail]

Returned(value) == [raised |-> FALSE, value |-> value]

\* mutant of decode_refresh_token: the scope of the payload is not looked at
decode_refresh_token_any_scope(token) ==
  LET payload == jwt_decode(token, SECRET_KEY, ALGORITHM) IN
  IF IsJWTError(payload) THEN HTTPException(401, "Could not validate credentials")
  ELSE Returned(payload.sub)

decode_refresh_token(token) ==
  LET payload == jwt_decode(token, SECRET_KEY, ALGORITHM) IN
  IF IsJWTError(payload) THEN HTTPException(401, "Could not validate credentials")
  ELSE IF payload.scope = "refresh token" THEN Returned(payload.sub)
  ELSE HTTPException(401, "Invalid scope for token")

\* f"{e}\nInvalid token for email verification"
email_token_detail(e) ==
  CASE e.message = "Not enough segments" ->
         "Not enough segments\nInvalid token for email verification"
    [] e.message = "Signature verification failed." ->
         "Signature verification failed.\nInvalid token for email verification"
    [] e.message = "Signature has expired." ->
         "Signature has expired.\nInvalid token for email verification"

get_email_from_token(token) ==
  LET payload == jwt_decode(token, SECRET_KEY, ALGORITHM) IN
  IF IsJWTError(payload)
  THEN HTTPException(422, email_token_detail(payload))
  ELSE IF payload.scope = "email token" THEN Returned(payload.sub)
  ELSE HTTPException(401, "Invalid scope for token")

\* mutant of access_token_email: a token is refused once its identity's stored
\* refresh token has been cleared
access_token_email_session_checked(token) ==
  LET payload == jwt_decode(token, SECRET_KEY, ALGORITHM) IN
  IF IsJWTError(payload) THEN HTTPException(401, "Could not validate credentials")
  ELSE IF payload.scope # "access token"
  THEN HTTPException(401, "Invalid scope for token")
  ELSE IF users[payload.sub] # None /\ users[payload.sub].refresh_token = None
  THEN HTTPException(401, "Could not validate credentials")
  ELSE Returned(payload.sub)

\* the part of get_current_user before the cache lookup
access_token_email(token) ==
  LET payload == jwt_decode(token, SECRET_KEY, ALGORITHM) IN
  IF IsJWTError(payload) THEN HTTPException(401, "Could not validate credentials")
  ELSE IF payload.scope = "access token" THEN Returned(payload.sub)
  ELSE HTTPException(401, "Invalid scope for token")

\* ------------------------------------------------- tokens a client can send
\* the steps the clock takes: a second, and the lifetime of a refresh token
ClockSteps == {1, REFRESH_DAYS * SECONDS_PER_DAY}

lifetime(scope) ==
  CASE scope = "access token" -> ACCESS_MINUTES * SECONDS_PER_MINUTE
    [] scope = "refresh token" -> REFRESH_DAYS * SECONDS_PER_DAY
    [] scope = "email token" -> EMAIL_DAYS * SECONDS_PER_DAY

\* the token create_<scope>_token({"sub": sub}) returned when called at second sec
TokenAt(sub, scope, sec) ==
  jwt_encode([sub |-> sub, scope |-> scope, iat |-> [sec |-> sec, frac |-> 0],
              exp |-> [sec |-> sec + lifetime(scope), frac |-> 0]],
             SECRET_KEY, ALGORITHM)

SignedTokens ==
  {TokenAt(sub, scope, sec) : sub \in run.emails, scope \in Scopes,
                              sec \in past}

\* the same header and payload signed with another key
Forged(token) == [token EXCEPT !.sig = hmac("not the key", token.payload)]

Malformed == [garbage |-> TRUE]

PresentedTokens ==
  SignedTokens \cup {Malformed}
    \cup {Forged(TokenAt(sub, scope, now.sec)) : sub \in run.emails, scope \in Scopes}

\* -------------------------------------------------------------- Directory
get_user_by_email(email) == users[email]

NextId == Cardinality({e \in Emails : users[e] # None}) + 1

\* User(**body.dict(), avatar=avatar); db.add; db.commit; db.refresh
\* mutant of create_user: the row starts confirmed
create_user_confirmed(body) ==
  [id |-> NextId, username |-> body.username, email |-> body.email,
   password |-> body.password, avatar |-> [gravatar |-> body.email],
   refresh_token |-> None, confirmed |-> TRUE]

create_user(body) ==
  [id |-> NextId, username |-> body.username, email |-> body.email,
   password |-> body.password, avatar |-> [gravatar |-> body.email],
   refresh_token |-> None, confirmed |-> FALSE]

\* mutant of update_token: the commit is missing, the row keeps its token
update_token_not_committed(user, token) == users

\* mutant of update_token: the UPDATE is not restricted to the user's row
update_token_every_row(user, token) ==
  [e \in Emails |-> IF users[e] = None THEN None
                    ELSE [users[e] EXCEPT !.refresh_token = token]]

\* mutant of update_token: a token that is stored is not overwritten
update_token_first_wins(user, token) ==
  IF users[user.email].refresh_token # None THEN users
  ELSE [users EXCEPT ![user.email].refresh_token = token]

\* user.refresh_token = token; db.commit(): the table after the UPDATE of that row.
\* user is the row as this request loaded it; an attribute set to the value it was
\* loaded with is no change, and the commit then writes nothing.
update_token(user, token) ==
  IF user.refresh_token = token THEN users
  ELSE [users EXCEPT ![user.email].refresh_token = token]

\* mutant of confirm_email: the UPDATE is not restricted to the user's row
confirm_email_every_row(user) ==
  [e \in Emails |-> IF users[e] = None THEN None
                    ELSE [users[e] EXCEPT !.confirmed = TRUE]]

\* mutant of confirm_email: the commit is missing
confirm_email_not_committed(user) == users

\* user.confirmed = True; db.commit()
confirm_email(user) ==
  IF user.confirmed THEN users
  ELSE [users EXCEPT ![user.email].confirmed = TRUE]

\* user.avatar = url; db.commit()
update_avatar(email, url) == [users EXCEPT ![email].avatar = url]

\* ------------------------------------------------------------------ cache
pickle_dumps(user) == [pickled |-> user]

pickle_loads(bytes) == bytes.pickled

\* the redis service does not answer: every command raises ConnectionError
ConnectionRefused == [connection |-> "refused"]

redis_unavailable == cache = ConnectionRefused

\* a key that was never given an expiry
NoExpiry == [never |-> TRUE]

\* redis GET: a key whose expiry has passed is gone
redis_get(email) ==
  IF cache[email] = None THEN None
  ELSE IF cache[email].expire_at = NoExpiry THEN cache[email].value
  ELSE IF before_or_at(cache[email].expire_at, now) THEN None
  ELSE cache[email].value

\* redis SET: the key holds the value from now on and has no expiry
redis_set(store, email, bytes) ==
  [store EXCEPT ![email] = [value |-> bytes, set_at |-> now, expire_at |-> NoExpiry]]

\* redis EXPIRE: the key, when it exists, is gone after so many seconds
redis_expire(store, email, seconds) ==
  IF store[email] = None THEN store
  ELSE [store EXCEPT ![email].expire_at = plus(now, seconds)]

\* redis SET followed by EXPIRE key 900
redis_set_expire(email, bytes, seconds) ==
  redis_expire(redis_set(cache, email, bytes), email, seconds)

\* mutant of redis_delete: the key is left in place
redis_delete_skipped(email) == cache

\* redis DEL
redis_delete(email) == [cache EXCEPT ![email] = None]

\* -------------------------------------------------------------- responses
\* a response, with the password of the request beside it
Response(op, email, status, detail) ==
  [op |-> op, email |-> email, status |-> status, detail |-> detail,
   access_token |-> None, refresh_token |-> None, token_type |-> "-",
   mail |-> None, user |-> None, body |-> None, password |-> "-"]

TokenResponse(op, email, access_token, refresh_token) ==
  [Response(op, email, 200, "-") EXCEPT !.access_token = access_token,
                                        !.refresh_token = refresh_token,
                                        !.token_type = "bearer"]

\* ----------------------------------------------------- scenario observers
NoScenB == [stage |-> 0, token |-> None, first |-> None, second |-> None]

\* login, then refresh twice with the refresh token that login returned
ObserveB(r, token) ==
  IF r.op = "login" /\ r.status = 200
  THEN [NoScenB EXCEPT !.stage = 1, !.token = r.refresh_token]
  ELSE IF r.op = "refresh_token" /\ scenB.stage = 1 /\ token = scenB.token
  THEN [scenB EXCEPT !.stage = 2, !.first = r]
  ELSE IF r.op = "refresh_token" /\ scenB.stage = 2 /\ token = scenB.token
  THEN [scenB EXCEPT !.stage = 3, !.second = r]
  ELSE NoScenB

NoScenA == [stage |-> 0, email |-> NoEmail, password |-> "-",
            login1 |-> None, stored1 |-> None, confirm |-> None, login2 |-> None]

\* a token create_email_token made for this email that has not expired
GeneratedEmailToken(token, email) ==
  LET payload == jwt_decode(token, SECRET_KEY, ALGORITHM) IN
  /\ ~IsJWTError(payload)
  /\ payload.scope = "email token"
  /\ payload.sub = email

\* signup, login, confirm, login for one email with the password of the signup;
\* table is the Users table as the request leaves it
ObserveA(r, token, table) ==
  IF r.op = "signup" /\ r.status = 201
  THEN [NoScenA EXCEPT !.stage = 1, !.email = r.email, !.password = r.password]
  ELSE IF /\ r.op = "login" /\ scenA.stage = 1
          /\ r.email = scenA.email /\ r.password = scenA.password
  THEN [scenA EXCEPT !.stage = 2, !.login1 = r,
                     !.stored1 = table[scenA.email].refresh_token]
  ELSE IF /\ r.op = "confirmed_email" /\ scenA.stage = 2
          /\ GeneratedEmailToken(token, scenA.email)
  THEN [scenA EXCEPT !.stage = 3, !.confirm = r]
  ELSE IF /\ r.op = "login" /\ scenA.stage = 3
          /\ r.email = scenA.email /\ r.password = scenA.password
  THEN [scenA EXCEPT !.stage = 4, !.login2 = r]
  ELSE NoScenA

\* the response leaves the handler: it is the last response and the observers see it
Respond(r, password, token) ==
  LET sent == [r EXCEPT !.password = password] IN
  /\ last' = sent
  /\ scenB' = IF "B" \in run.record THEN ObserveB(sent, token) ELSE scenB
  /\ scenA' = IF "A" \in run.record THEN ObserveA(sent, token, users') ELSE scenA

\* tokens leave the system in a response
Issue(tokens) == IF "issued" \in run.record THEN issued \cup tokens ELSE issued

\* the handler raises: the response is the exception's and nothing is written
Raise(op, email, exc, password, token) ==
  /\ users' = users
  /\ Respond(Response(op, email, exc.status, exc.detail), password, token)
  /\ UNCHANGED <<cache, now, past, issued, req, run, contacts>>

\* ------------------------------------------------------------ routes/auth
\* mutant of account_exists: the check is skipped
account_exists_unchecked(exist_user) == FALSE

\* if exist_user:
account_exists(exist_user) == exist_user # None

\* POST /auth/signup
signup(body) ==
  LET exist_user == get_user_by_email(body.email) IN
  IF account_exists(exist_user)
  THEN Raise("signup", body.email, HTTPException(409, "Account already exists"),
             body.password, None)
  ELSE LET hashed == [body EXCEPT !.password = get_hashed_password(body.password)]
           user == create_user(hashed)
       IN /\ users' = [users EXCEPT ![body.email] = user]
          /\ Respond([Response("signup", body.email, 201, "User successfully created")
                        EXCEPT !.user = user,
                               !.mail = create_email_token([sub |-> user.email])],
                     body.password, None)
          /\ UNCHANGED <<cache, now, past, issued, req, run, contacts>>

\* mutant of login_checks: the password is checked before the confirmation
login_checks_password_first(user, body) ==
  IF user = None THEN HTTPException(401, "Invalid email")
  ELSE IF ~verify_password(body.password, user.password)
  THEN HTTPException(401, "Invalid password")
  ELSE IF ~user.confirmed THEN HTTPException(401, "Email not confirmed")
  ELSE Returned(user)

\* mutant of login_checks: the password is not verified
login_checks_password_unchecked(user, body) ==
  IF user = None THEN HTTPException(401, "Invalid email")
  ELSE IF ~user.confirmed THEN HTTPException(401, "Email not confirmed")
  ELSE Returned(user)

\* mutant of login_checks: an unconfirmed identity may log in
login_checks_unconfirmed_allowed(user, body) ==
  IF user = None THEN HTTPException(401, "Invalid email")
  ELSE IF ~verify_password(body.password, user.password)
  THEN HTTPException(401, "Invalid password")
  ELSE Returned(user)

\* the three checks of login, in the order of the code
login_checks(user, body) ==
  IF user = None THEN HTTPException(401, "Invalid email")
  ELSE IF ~user.confirmed THEN HTTPException(401, "Email not confirmed")
  ELSE IF ~verify_password(body.password, user.password)
  THEN HTTPException(401, "Invalid password")
  ELSE Returned(user)

\* POST /auth/login
login(body) ==
  LET user == get_user_by_email(body.username)
      checked == login_checks(user, body)
  IN
  IF checked.raised
  THEN Raise("login", body.username, checked, body.password, None)
  ELSE LET access_token == create_access_token([sub |-> body.username])
           refresh_token == create_refresh_token([sub |-> body.username])
       IN /\ users' = update_token(user, refresh_token)
          /\ issued' = Issue({access_token, refresh_token})
          /\ Respond(TokenResponse("login", body.username, access_token, refresh_token),
                     body.password, None)
          /\ UNCHANGED <<cache, now, past, req, run, contacts>>

\* user.refresh_token on a user that is None: AttributeError, answered with 500
AttributeError == HTTPException(500, "Internal Server Error")

\* mutant of token_differs: the presented token is not compared with the stored one
token_differs_unchecked(token, user) == FALSE

\* if token != user.refresh_token:
token_differs(token, user) == token # user.refresh_token

\* mutant of force_logout: the stored token is left in place
force_logout_keeps_token(user) == users

\* await update_token(user, None, db)
force_logout(user) == update_token(user, None)

\* GET /auth/refresh_token
refresh_token(token) ==
  LET decoded == decode_refresh_token(token) IN
  IF decoded.raised
  THEN Raise("refresh_token", NoEmail, decoded, "-", token)
  ELSE
  LET email == decoded.value
      user == get_user_by_email(email)
  IN
  IF user = None
  THEN Raise("refresh_token", email, AttributeError, "-", token)
  ELSE IF token_differs(token, user)
  THEN /\ users' = force_logout(user)
       /\ Respond(Response("refresh_token", email, 401, "Invalid refresh token"),
                  "-", token)
       /\ UNCHANGED <<cache, now, past, issued, req, run, contacts>>
  ELSE LET access_token == create_access_token([sub |-> email])
           new_refresh_token == create_refresh_token([sub |-> email])
       IN /\ users' = update_token(user, new_refresh_token)
          /\ issued' = Issue({access_token, new_refresh_token})
          /\ Respond(TokenResponse("refresh_token", email, access_token,
                                   new_refresh_token),
                     "-", token)
          /\ UNCHANGED <<cache, now, past, req, run, contacts>>

\* mutant of request_email_message: an email with no row is told so
request_email_message_tells(user) ==
  IF user = None THEN "Email not registered"
  ELSE IF user.confirmed THEN "Your email is already confirmed"
  ELSE "Check your email for confirmation"

\* if user and user.confirmed: return {"message": "Your email is already confirmed"}
\* ... return {"message": "Check your email for confirmation"}
request_email_message(user) ==
  IF user # None /\ user.confirmed
  THEN "Your email is already confirmed"
  ELSE "Check your email for confirmation"

\* POST /auth/request_email
request_email(body) ==
  LET user == get_user_by_email(body.email)
      message == request_email_message(user)
      mail == IF user # None /\ ~user.confirmed
              THEN create_email_token([sub |-> user.email])
              ELSE None
  IN /\ users' = users
     /\ Respond([Response("request_email", body.email, 200, message)
                   EXCEPT !.mail = mail],
                "-", None)
     /\ UNCHANGED <<cache, now, past, issued, req, run, contacts>>

\* mutant of VerificationError: the subject is reported as not found
VerificationError_not_found == HTTPException(404, "Not found")

\* raise HTTPException(status_code=400, detail="Verification error")
VerificationError == HTTPException(400, "Verification error")

\* mutant of already_confirmed: the flag is not looked at
already_confirmed_unchecked(user) == FALSE

\* if user.confirmed:
already_confirmed(user) == user.confirmed

\* GET /auth/confirmed_email/{email_token}
confirmed_email(email_token) ==
  LET decoded == get_email_from_token(email_token) IN
  IF decoded.raised
  THEN Raise("confirmed_email", NoEmail, decoded, "-", email_token)
  ELSE
  LET email == decoded.value
      user == get_user_by_email(email)
  IN
  IF user = None
  THEN Raise("confirmed_email", email, VerificationError, "-", email_token)
  ELSE IF already_confirmed(user)
  THEN /\ users' = users
       /\ Respond(Response("confirmed_email", email, 200,
                           "Your email is already confirmed"),
                  "-", email_token)
       /\ UNCHANGED <<cache, now, past, issued, req, run, contacts>>
  ELSE /\ users' = confirm_email(user)
       /\ Respond(Response("confirmed_email", email, 200, "Email confirmed"),
                  "-", email_token)
       /\ UNCHANGED <<cache, now, past, issued, req, run, contacts>>

\* ----------------------------------------------------------- routes/users
\* an exception on its way out of get_current_user, with the email decoded so far
Failed(exc, email) ==
  [raised |-> TRUE, status |-> exc.status, detail |-> exc.detail, email |-> email]

\* redis.exceptions.ConnectionError is caught nowhere: the request answers 500
ConnectionError == HTTPException(500, "Internal Server Error")

\* mutant of cache_miss: the cache is never believed
cache_miss_always(cached) == TRUE

\* if user is None: (after redis_client.get)
cache_miss(cached) == cached = None

\* mutant of user_missing: the row is not looked at
user_missing_unchecked(user) == FALSE

\* if user is None: (after get_user_by_email)
user_missing(user) == user = None

\* Auth.get_current_user: the user it returns and the cache as it leaves it
get_current_user(token) ==
  LET decoded == access_token_email(token) IN
  IF decoded.raised THEN Failed(decoded, NoEmail)
  ELSE
  LET email == decoded.value IN
  IF redis_unavailable THEN Failed(ConnectionError, email)
  ELSE
  LET cached == redis_get(email) IN
  IF cache_miss(cached)
  THEN LET user == get_user_by_email(email) IN
       IF user_missing(user)
       THEN Failed(HTTPException(401, "User doesn't exist"), email)
       ELSE [raised |-> FALSE, value |-> user, email |-> email,
             store |-> redis_set_expire(email, pickle_dumps(user), CACHE_TTL)]
  ELSE [raised |-> FALSE, value |-> pickle_loads(cached), email |-> email,
        store |-> cache]

\* GET /users/me, which returns the user of get_current_user
read_users_me(token) ==
  LET got == get_current_user(token) IN
  IF got.raised
  THEN Raise("read_users_me", got.email, got, "-", token)
  ELSE /\ users' = users
       /\ cache' = got.store
       /\ Respond([Response("read_users_me", got.email, 200, "-")
                     EXCEPT !.user = got.value],
                  "-", token)
       /\ UNCHANGED <<now, past, issued, req, run, contacts>>

\* cloudinary.CloudinaryImage(public_id).build_url(..., version=r.get('version'))
build_url(public_id, version) == [cloudinary |-> public_id, version |-> version]

\* PATCH /users/avatar: get_current_user, the upload, then repository update_avatar
update_avatar_user(token, version) ==
  LET got == get_current_user(token) IN
  IF got.raised
  THEN Raise("update_avatar_user", got.email, got, "-", token)
  ELSE
  LET email == got.value.email
      src_url == build_url(email, version)
  IN
  IF get_user_by_email(email) = None
  THEN Raise("update_avatar_user", email, AttributeError, "-", token)
  ELSE /\ users' = update_avatar(email, src_url)
       /\ cache' = redis_delete(email)
       /\ Respond([Response("update_avatar_user", email, 200, "-")
                     EXCEPT !.user = users'[email]],
                  "-", token)
       /\ UNCHANGED <<now, past, issued, req, run, contacts>>

\* ---------------------------------------------------------- datetime.date
is_leap(year) == year % 4 = 0 /\ (year % 100 # 0 \/ year % 400 = 0)

days_in_month(year, month) ==
  IF month = 2 THEN (IF is_leap(year) THEN 29 ELSE 28)
  ELSE IF month \in {4, 6, 9, 11} THEN 30
  ELSE 31

days_in_year(year) == IF is_leap(year) THEN 366 ELSE 365

\* date(...) and date.replace(...) raise ValueError for a day that is not in the month
ValueError == [error |-> "ValueError"]

IsValueError(d) == "error" \in DOMAIN d

\* date(year=..., month=..., day=...)
date(year, month, day) ==
  IF month \in 1..12 /\ day \in 1..days_in_month(year, month)
  THEN [year |-> year, month |-> month, day |-> day]
  ELSE ValueError

\* d.replace(year=year)
replace_year(d, year) == date(year, d.month, d.day)

RECURSIVE days_before_year(_)
days_before_year(year) ==
  IF year = 1970 THEN 0 ELSE days_before_year(year - 1) + days_in_year(year - 1)

RECURSIVE days_before_month(_, _)
days_before_month(year, month) ==
  IF month = 1 THEN 0
  ELSE days_before_month(year, month - 1) + days_in_month(year, month - 1)

\* the days from 1970-01-01 to d
days_since_epoch(d) ==
  days_before_year(d.year) + days_before_month(d.year, d.month) + d.day - 1

RECURSIVE year_from(_, _)
year_from(days, year) ==
  IF days < days_in_year(year) THEN [year |-> year, days |-> days]
  ELSE year_from(days - days_in_year(year), year + 1)

RECURSIVE month_from(_, _, _)
month_from(days, year, month) ==
  IF days < days_in_month(year, month) THEN date(year, month, days + 1)
  ELSE month_from(days - days_in_month(year, month), year, month + 1)

\* date.today(): the day the wall clock shows
date_today ==
  LET y == year_from(now.sec \div SECONDS_PER_DAY, 1970)
  IN month_from(y.days, y.year, 1)

\* ---------------------------------------------------- repository/contacts
\* mutant of owned_by: the owner is not looked at
owned_by_anyone(contact, user) == TRUE

\* Contact.user_id==user.id, filter_by(user_id=user.id)
owned_by(contact, user) == contact.user_id = user.id

\* db.query(Contact) filtered by the owner
query(user) == {contact \in contacts.rows : owned_by(contact, user)}

\* .first(): no row, or one of the rows that match (the query has no order)
first(matching) == IF matching = {} THEN {None} ELSE matching

\* .first() of a query by primary key: at most one row matches
first_by_id(matching) == IF matching = {} THEN None ELSE CHOOSE contact \in matching : TRUE

RECURSIVE order_by_id(_)
order_by_id(rows) ==
  IF rows = {} THEN <<>>
  ELSE LET contact == CHOOSE c \in rows : \A d \in rows : c.id <= d.id
       IN <<contact>> \o order_by_id(rows \ {contact})

\* .limit(limit).offset(offset)
limit_offset(rows, limit, offset) ==
  SubSeq(rows, offset + 1, IF Len(rows) < offset + limit THEN Len(rows) ELSE offset + limit)

repository_get_contacts(limit, offset, user) ==
  limit_offset(order_by_id(query(user)), limit, offset)

repository_get_contact_by_id(contact_id, user) ==
  first_by_id({contact \in query(user) : contact.id = contact_id})

repository_get_contact_by_first_name(contact_first_name, user) ==
  first({contact \in query(user) : contact.first_name = contact_first_name})

repository_get_contact_by_last_name(contact_last_name, user) ==
  first({contact \in query(user) : contact.last_name = contact_last_name})

repository_get_contact_by_email(contact_email, user) ==
  first({contact \in query(user) : contact.email = contact_email})

\* the contacts returned, or the ValueError of date(...) or of replace(...)
repository_get_week_birthday_people(user) ==
  LET today == date_today
      week == {date(today.year, today.month, today.day + num) : num \in 0..6}
      objs == query(user)
  IN IF \E d \in week : IsValueError(d) THEN ValueError
     ELSE IF \E obj \in objs : IsValueError(replace_year(obj.birth_date, today.year))
     THEN ValueError
     ELSE [people |-> {obj \in objs : replace_year(obj.birth_date, today.year) \in week}]

\* Contact(**body.dict(), user_id=user.id) with the id the table gives it
Contact(body, user_id, id) ==
  [id |-> id, user_id |-> user_id,
   first_name |-> body.first_name, last_name |-> body.last_name,
   email |-> body.email, phone |-> body.phone,
   birth_date |-> body.birth_date, additional_data |-> body.additional_data]

\* the value a repository function returns and the table as it leaves it
Result(value, table) == [value |-> value, table |-> table]

repository_create_contact(body, user) ==
  LET contact == Contact(body, user.id, contacts.seq + 1)
  IN Result(contact, [rows |-> contacts.rows \cup {contact}, seq |-> contacts.seq + 1])

repository_update_contact(body, contact_id, user) ==
  LET contact == first_by_id({c \in query(user) : c.id = contact_id}) IN
  IF contact = None THEN Result(None, contacts)
  ELSE LET updated == Contact(body, contact.user_id, contact.id)
       IN Result(updated,
                 [contacts EXCEPT !.rows = (contacts.rows \ {contact}) \cup {updated}])

\* mutant of repository_remove_contact: the row is returned and not deleted
repository_remove_contact_kept(contact_id, user) ==
  Result(first_by_id({c \in query(user) : c.id = contact_id}), contacts)

repository_remove_contact(contact_id, user) ==
  LET contact == first_by_id({c \in query(user) : c.id = contact_id}) IN
  IF contact = None THEN Result(None, contacts)
  ELSE Result(contact, [contacts EXCEPT !.rows = contacts.rows \ {contact}])

\* -------------------------------------------------------- routes/contacts
\* response_model=ContactResponseModel: the fields of the row that are returned
ContactResponseModel(contact) ==
  [id |-> contact.id,
   first_name |-> contact.first_name, last_name |-> contact.last_name,
   email |-> contact.email, phone |-> contact.phone,
   birth_date |-> contact.birth_date, additional_data |-> contact.additional_data]

\* the response of a contacts route once get_current_user has returned the user
ContactsReply(op, token, got, status, detail, body, table) ==
  /\ users' = users
  /\ cache' = got.store
  /\ contacts' = table
  /\ Respond([Response(op, got.email, status, detail) EXCEPT !.body = body], "-", token)
  /\ UNCHANGED <<now, past, issued, req, run>>

\* if contact is None: raise HTTPException(status_code=status.HTTP_404_NOT_FOUND)
contact_or_404(op, token, got, contact, status, table) ==
  IF contact = None
  THEN ContactsReply(op, token, got, 404, "Not Found", None, contacts)
  ELSE ContactsReply(op, token, got, status,  "-",
                     IF status = 204 THEN None ELSE ContactResponseModel(contact),
                     table)

\* GET /contacts/
get_contacts(token, limit, skip) ==
  LET got == get_current_user(token) IN
  IF got.raised THEN Raise("get_contacts", got.email, got, "-", token)
  ELSE LET found == repository_get_contacts(limit, skip, got.value) IN
       ContactsReply("get_contacts", token, got, 200, "-",
                     [list |-> [i \in 1..Len(found) |-> ContactResponseModel(found[i])]],
                     contacts)

\* GET /contacts/week_birthday_people
get_week_birthday_people(token) ==
  LET got == get_current_user(token) IN
  IF got.raised THEN Raise("get_week_birthday_people", got.email, got, "-", token)
  ELSE LET found == repository_get_week_birthday_people(got.value) IN
       IF IsValueError(found)
       THEN ContactsReply("get_week_birthday_people", token, got,
                          500, "Internal Server Error", None, contacts)
       ELSE ContactsReply("get_week_birthday_people", token, got, 200, "-",
                          [people |-> {ContactResponseModel(obj) : obj \in found.people}],
                          contacts)

\* GET /contacts/{contact_id}
get_contact_by_id(token, contact_id) ==
  LET got == get_current_user(token) IN
  IF got.raised THEN Raise("get_contact_by_id", got.email, got, "-", token)
  ELSE contact_or_404("get_contact_by_id", token, got,
                      repository_get_contact_by_id(contact_id, got.value), 200, contacts)

\* GET /contacts/first_name/{contact_first_name}
get_contact_by_first_name(token, contact_first_name) ==
  LET got == get_current_user(token) IN
  IF got.raised THEN Raise("get_contact_by_first_name", got.email, got, "-", token)
  ELSE \E contact \in repository_get_contact_by_first_name(contact_first_name, got.value) :
         contact_or_404("get_contact_by_first_name", token, got, contact, 200, contacts)

\* GET /contacts/last_name/{contact_last_name}
get_contact_by_last_name(token, contact_last_name) ==
  LET got == get_current_user(token) IN
  IF got.raised THEN Raise("get_contact_by_last_name", got.email, got, "-", token)
  ELSE \E contact \in repository_get_contact_by_last_name(contact_last_name, got.value) :
         contact_or_404("get_contact_by_last_name", token, got, contact, 200, contacts)

\* GET /contacts/email/{contact_email}
get_contact_by_email(token, contact_email) ==
  LET got == get_current_user(token) IN
  IF got.raised THEN Raise("get_contact_by_email", got.email, got, "-", token)
  ELSE \E contact \in repository_get_contact_by_email(contact_email, got.value) :
         contact_or_404("get_contact_by_email", token, got, contact, 200, contacts)

\* POST /contacts/
create_contact(token, body) ==
  LET got == get_current_user(token) IN
  IF got.raised THEN Raise("create_contact", got.email, got, "-", token)
  ELSE LET created == repository_create_contact(body, got.value) IN
       ContactsReply("create_contact", token, got, 201, "-",
                     ContactResponseModel(created.value), created.table)

\* PUT /contacts/{contact_id}
update_contact(token, body, contact_id) ==
  LET got == get_current_user(token) IN
  IF got.raised THEN Raise("update_contact", got.email, got, "-", token)
  ELSE LET updated == repository_update_contact(body, contact_id, got.value) IN
       contact_or_404("update_contact", token, got, updated.value, 200, updated.table)

\* DELETE /contacts/{contact_id}
remove_contact(token, contact_id) ==
  LET got == get_current_user(token) IN
  IF got.raised THEN Raise("remove_contact", got.email, got, "-", token)
  ELSE LET removed == repository_remove_contact(contact_id, got.value) IN
       contact_or_404("remove_contact", token, got, removed.value, 204, removed.table)

\* ------------------------------------------------------------ rate limiter
\* RateLimiter(times=2, seconds=5)
times == 2
seconds == 5

\* the routes that take the user of get_current_user
ProtectedRoutes ==
  {"get_contacts", "get_week_birthday_people", "get_contact_by_id",
   "get_contact_by_first_name", "get_contact_by_last_name", "get_contact_by_email",
   "create_contact", "update_contact", "remove_contact",
   "read_users_me", "update_avatar_user"}

\* the route whose requests this behaviour counts
Tracked(op) == op \in run.record

\* the count under the route's key, which is gone once its expiry has passed
limiter_current ==
  IF limiter = None THEN 0
  ELSE IF before_or_at(limiter.expire_at, now) THEN 0
  ELSE limiter.count

\* a request is let through to the endpoint
Admit ==
  LET all == Append(admitted, now.sec)
  IN IF Len(all) > times + 1 THEN Tail(all) ELSE all

\* dependencies=[Depends(RateLimiter(times=2, seconds=5))]: the first request
\* sets the key to 1 with an expiry, later ones increment it, and a request that
\* would take it over the limit is answered 429 before the endpoint runs
RateLimiter(op, endpoint) ==
  IF ~Tracked(op) THEN endpoint /\ UNCHANGED <<limiter, admitted>>
  ELSE LET current == limiter_current IN
       IF current > 0 /\ current + 1 > times
       THEN /\ Raise(op, NoEmail, HTTPException(429, "Too Many Requests"), "-", None)
            /\ UNCHANGED <<limiter, admitted>>
       ELSE /\ limiter' = IF current > 0
                          THEN [limiter EXCEPT !.count = current + 1]
                          ELSE [count |-> 1, expire_at |-> plus(now, seconds)]
            /\ admitted' = Admit
            /\ endpoint

\* a route without a RateLimiter among its dependencies: every request runs it
Unlimited(op, endpoint) ==
  /\ endpoint
  /\ limiter' = limiter
  /\ admitted' = IF Tracked(op) THEN Admit ELSE admitted

\* ------------------------------------------------------------------ clock
\* the clock moves on within the second
TickFraction ==
  /\ now.frac = 0
  /\ now' = [now EXCEPT !.frac = 1]
  /\ UNCHANGED <<users, cache, past, issued, last, scenB, scenA, req, run, contacts, limiter, admitted>>

\* the clock moves on by a second, by an access lifetime or by a refresh lifetime
Tick(d) ==
  /\ Cardinality(past) <= MaxTicks
  /\ now' = [sec |-> now.sec + d, frac |-> 0]
  /\ past' = past \cup {now.sec + d}
  /\ UNCHANGED <<users, cache, issued, last, scenB, scenA, req, run, contacts, limiter, admitted>>

\* ------------------------------------------------------ the specification
Idle == [pc |-> "idle"]

InitAt(emails, record, sec) ==
  /\ users = [e \in Emails |-> None]
  /\ cache = [e \in Emails |-> None]
  /\ now = [sec |-> sec, frac |-> 0]
  /\ past = {sec}
  /\ issued = {}
  /\ last = Response("-", NoEmail, 0, "-")
  /\ scenB = NoScenB
  /\ scenA = NoScenA
  /\ req = [w \in Workers |-> Idle]
  /\ run = [emails |-> emails, record |-> record]
  /\ contacts = [rows |-> {}, seq |-> 0]
  /\ limiter = None
  /\ admitted = <<>>

InitWith(emails, record) == InitAt(emails, record, 0)

Init == InitWith(Emails, {})

Signup == \E e \in run.emails :
            Unlimited("signup", signup([username |-> "bob", email |-> e, password |-> "pw"]))

Login == \E e \in run.emails, p \in Passwords :
           Unlimited("login", login([username |-> e, password |-> p]))

RefreshToken == \E t \in PresentedTokens : Unlimited("refresh_token", refresh_token(t))

RequestEmail ==
  \E e \in run.emails : Unlimited("request_email", request_email([email |-> e]))

ConfirmedEmail ==
  \E t \in PresentedTokens : Unlimited("confirmed_email", confirmed_email(t))

ReadUsersMe == \E t \in PresentedTokens : RateLimiter("read_users_me", read_users_me(t))

ClockSecond == Tick(1)

Clock == \E d \in ClockSteps : Tick(d)

Next ==
  \/ Signup
  \/ Login
  \/ RefreshToken
  \/ RequestEmail
  \/ ConfirmedEmail
  \/ Clock

Spec == Init /\ [][Next]_vars

\* one client, the routes of routes/auth and routes/users
OneEmail == {"a@x.com"}

InitUsers == InitWith(OneEmail, {})

NextUsers == Next \/ ReadUsersMe

SpecUsers == InitUsers /\ [][NextUsers]_vars

InitIssued == InitWith(OneEmail, {"issued"})

\* here the clock also moves within the second
NextIssued == Next \/ TickFraction

SpecIssued == InitIssued /\ [][NextIssued]_vars

InitA == InitWith(OneEmail, {"A"})

SpecA == InitA /\ [][Next]_vars

InitB == InitWith(OneEmail, {"B"})

SpecB == InitB /\ [][Next]_vars

\* ------------------------------------- several workers, one Users table
\* lines 78-80 of refresh_token: decode the token and load the row in this
\* request's own session
RefreshRead(w, token) ==
  /\ req[w].pc = "idle"
  /\ LET decoded == decode_refresh_token(token) IN
     IF decoded.raised
     THEN LET r == Response("refresh_token", NoEmail, decoded.status, decoded.detail)
          IN /\ req' = [req EXCEPT ![w] = [pc |-> "done", token |-> token, resp |-> r,
                                           during |-> {}]]
     ELSE /\ req' = [req EXCEPT ![w] =
                       [pc |-> "read", token |-> token, email |-> decoded.value,
                        user |-> get_user_by_email(decoded.value),
                        during |-> {v \in Workers \ {w} : req[v].pc \in {"read", "checked"}}]]
  /\ UNCHANGED <<users, cache, now, past, issued, last, scenB, scenA, run, contacts, limiter, admitted>>

\* lines 82-89 of refresh_token, on the row loaded before
RefreshWrite(w) ==
  /\ req[w].pc = "read"
  /\ LET token == req[w].token
         email == req[w].email
         user == req[w].user
         Done(r) == req' = [req EXCEPT ![w] = [pc |-> "done", token |-> token,
                                              resp |-> r, during |-> req[w].during]]
     IN
     IF user = None
     THEN LET r == Response("refresh_token", email, AttributeError.status,
                            AttributeError.detail)
          IN /\ Done(r)
             /\ UNCHANGED <<users, issued>>
     ELSE IF token_differs(token, user)
     THEN LET r == Response("refresh_token", email, 401, "Invalid refresh token")
          IN /\ users' = force_logout(user)
             /\ Done(r)
             /\ UNCHANGED issued
     ELSE LET access_token == create_access_token([sub |-> email])
              new_refresh_token == create_refresh_token([sub |-> email])
              r == TokenResponse("refresh_token", email, access_token, new_refresh_token)
          IN /\ users' = update_token(user, new_refresh_token)
             /\ issued' = Issue({access_token, new_refresh_token})
             /\ Done(r)
  /\ UNCHANGED <<cache, now, past, last, scenB, scenA, run, contacts, limiter, admitted>>

\* the bearer tokens the workers' clients send: refresh tokens, and one that is none
WorkerTokens ==
  {t \in SignedTokens : t.payload.scope = "refresh token"} \cup {Malformed}

WorkerReads == \E w \in Workers, t \in WorkerTokens : RefreshRead(w, t)

WorkerWrites == \E w \in Workers : RefreshWrite(w)

\* lines 51-58 of login: load the row in this request's own session and check it
LoginRead(w, body) ==
  /\ req[w].pc = "idle"
  /\ LET user == get_user_by_email(body.username)
         checked == login_checks(user, body)
     IN
     IF checked.raised
     THEN LET r == Response("login", body.username, checked.status, checked.detail)
          IN req' = [req EXCEPT ![w] = [pc |-> "done", token |-> None, resp |-> r,
                                        during |-> {}]]
     ELSE req' = [req EXCEPT ![w] =
                    [pc |-> "checked", token |-> None, email |-> body.username,
                     user |-> user,
                     during |-> {v \in Workers \ {w} : req[v].pc \in {"read", "checked"}}]]
  /\ UNCHANGED <<users, cache, now, past, issued, last, scenB, scenA, run, contacts, limiter, admitted>>

\* lines 59-63 of login, on the row loaded before
LoginWrite(w) ==
  /\ req[w].pc = "checked"
  /\ LET email == req[w].email
         access_token == create_access_token([sub |-> email])
         new_refresh_token == create_refresh_token([sub |-> email])
         r == TokenResponse("login", email, access_token, new_refresh_token)
     IN /\ users' = update_token(req[w].user, new_refresh_token)
        /\ issued' = Issue({access_token, new_refresh_token})
        /\ req' = [req EXCEPT ![w] = [pc |-> "done", token |-> None, resp |-> r,
                                      during |-> req[w].during]]
  /\ UNCHANGED <<cache, now, past, last, scenB, scenA, run, contacts, limiter, admitted>>

InitConc == InitWith(OneEmail, {})

NextConc ==
  \/ Signup
  \/ Login
  \/ ConfirmedEmail
  \/ ClockSecond
  \/ WorkerReads
  \/ WorkerWrites

SpecConc == InitConc /\ [][NextConc]_vars

\* ----------------------------- the identity cache, tokens as they were minted
\* the versions cloudinary gives to the uploads
Versions == {1, 2}

\* what a client holds: the tokens of the responses so far, the email tokens that
\* were or can be mailed, and a string that is no token
MintedTokens ==
  issued \cup {t \in SignedTokens : t.payload.scope = "email token"} \cup {Malformed}

\* of these, what a client sends to a route that expects the scope: a token of
\* that scope, or the string that is no token
Minted(scope) ==
  {t \in MintedTokens : t = Malformed \/ t.payload.scope = scope}

RefreshMinted ==
  \E t \in Minted("refresh token") : Unlimited("refresh_token", refresh_token(t))

ConfirmMinted ==
  \E t \in Minted("email token") : Unlimited("confirmed_email", confirmed_email(t))

ReadMinted ==
  \E t \in Minted("access token") : RateLimiter("read_users_me", read_users_me(t))

UpdateAvatarUser ==
  \E t \in Minted("access token"), v \in Versions :
    Unlimited("update_avatar_user", update_avatar_user(t, v))

\* the clock moves on by a second or by the lifetime of a cache entry
CacheClockSteps == {1, CACHE_TTL}

CacheClock == \E d \in CacheClockSteps : Tick(d)

InitCache == InitWith(OneEmail, {"issued"})

NextCache ==
  \/ Signup
  \/ Login
  \/ RefreshMinted
  \/ ConfirmMinted
  \/ ReadMinted
  \/ UpdateAvatarUser
  \/ CacheClock

SpecCache == InitCache /\ [][NextCache]_vars

\* two identities side by side: both may sign up at any time; of the other
\* requests, those of one identity come first and set up its session and its
\* cache entry, then those of the other follow
Bystander == "b@x.com"

Established ==
  /\ users[Bystander] # None
  /\ users[Bystander].refresh_token # None
  /\ cache[Bystander] # None

InTurn == last'.email = Bystander <=> ~Established

FrameSignup == Signup

FrameConfirm == ConfirmMinted /\ InTurn

FrameLogin == Login /\ InTurn

FrameRefresh == RefreshMinted /\ InTurn

FrameRead == ReadMinted /\ InTurn

FrameClock == Established /\ ClockSecond

InitFrame == InitWith(Emails, {"issued"})

NextFrame ==
  \/ FrameSignup
  \/ FrameConfirm
  \/ FrameLogin
  \/ FrameRefresh
  \/ FrameRead
  \/ FrameClock

SpecFrame == InitFrame /\ [][NextFrame]_vars

\* concurrent logins and refreshes: the session is set up by requests that run
\* alone, then each worker handles one login or one refresh
SetupLogin == (\A w \in Workers : req[w].pc = "idle") /\ Login

WorkerLoginReads ==
  \E w \in Workers, p \in Passwords :
    \E e \in run.emails : LoginRead(w, [username |-> e, password |-> p])

WorkerLoginWrites == \E w \in Workers : LoginWrite(w)

\* the refresh tokens returned so far, and one that is none
WorkerRefreshReads ==
  \E w \in Workers, t \in Minted("refresh token") : RefreshRead(w, t)

InitSession == InitWith(OneEmail, {"issued"})

NextSession ==
  \/ Signup
  \/ ConfirmMinted
  \/ SetupLogin
  \/ ClockSecond
  \/ WorkerLoginReads
  \/ WorkerLoginWrites
  \/ WorkerRefreshReads
  \/ WorkerWrites

SpecSession == InitSession /\ [][NextSession]_vars

\* ------------------------------------------------ the redis service goes away
RedisStops ==
  /\ ~redis_unavailable
  /\ cache' = ConnectionRefused
  /\ UNCHANGED <<users, now, past, issued, last, scenB, scenA, req, run, contacts, limiter, admitted>>

\* the service is back, with nothing in it
RedisStarts ==
  /\ redis_unavailable
  /\ cache' = [e \in Emails |-> None]
  /\ UNCHANGED <<users, now, past, issued, last, scenB, scenA, req, run, contacts, limiter, admitted>>

InitOutage == InitWith(OneEmail, {"issued"})

NextOutage ==
  \/ Signup
  \/ Login
  \/ ConfirmMinted
  \/ ReadMinted
  \/ ClockSecond
  \/ RedisStops
  \/ RedisStarts

SpecOutage == InitOutage /\ [][NextOutage]_vars

\* ------------------------- get_current_user, split at its two cache commands
\* lines 171-190 of get_current_user: up to and including redis_client.set
ResolveSet(w, token) ==
  /\ req[w].pc = "idle"
  /\ LET decoded == access_token_email(token)
         Done(r, u) == req' = [req EXCEPT ![w] = [pc |-> "done", resp |-> r, user |-> u]]
     IN
     IF decoded.raised
     THEN /\ Done(Response("read_users_me", NoEmail, decoded.status, decoded.detail), None)
          /\ cache' = cache
     ELSE IF redis_unavailable
     THEN /\ Done(Response("read_users_me", decoded.value, ConnectionError.status,
                           ConnectionError.detail), None)
          /\ cache' = cache
     ELSE
     LET email == decoded.value
         cached == redis_get(email)
     IN
     IF cache_miss(cached)
     THEN LET user == get_user_by_email(email) IN
          IF user_missing(user)
          THEN /\ Done(Response("read_users_me", email, 401, "User doesn't exist"), None)
               /\ cache' = cache
          ELSE /\ req' = [req EXCEPT ![w] = [pc |-> "set", email |-> email, user |-> user]]
               /\ cache' = redis_set(cache, email, pickle_dumps(user))
     ELSE /\ Done(Response("read_users_me", email, 200, "-"), pickle_loads(cached))
          /\ cache' = cache
  /\ UNCHANGED <<users, now, past, issued, last, scenB, scenA, run, contacts, limiter, admitted>>

\* line 191 of get_current_user: redis_client.expire, then the user is returned
ResolveExpire(w) ==
  /\ req[w].pc = "set"
  /\ IF redis_unavailable
     THEN /\ cache' = cache
          /\ req' = [req EXCEPT ![w] =
                       [pc |-> "done", user |-> req[w].user,
                        resp |-> Response("read_users_me", req[w].email,
                                          ConnectionError.status,
                                          ConnectionError.detail)]]
     ELSE /\ cache' = redis_expire(cache, req[w].email, CACHE_TTL)
          /\ req' = [req EXCEPT ![w] =
                       [pc |-> "done", user |-> req[w].user,
                        resp |-> Response("read_users_me", req[w].email, 200, "-")]]
  /\ UNCHANGED <<users, now, past, issued, last, scenB, scenA, run, contacts, limiter, admitted>>

\* the request ends between the two commands: its worker is stopped, or the
\* expire command fails
ResolveStop(w) ==
  /\ req[w].pc = "set"
  /\ req' = [req EXCEPT ![w] = [pc |-> "stopped", email |-> req[w].email]]
  /\ UNCHANGED <<users, cache, now, past, issued, last, scenB, scenA, run, contacts, limiter, admitted>>

WorkerSets == \E w \in Workers, t \in Minted("access token") : ResolveSet(w, t)

WorkerExpires == \E w \in Workers : ResolveExpire(w)

WorkerStops == \E w \in Workers : ResolveStop(w)

InitTtl == InitWith(OneEmail, {"issued"})

NextTtl ==
  \/ Signup
  \/ Login
  \/ ConfirmMinted
  \/ CacheClock
  \/ WorkerSets
  \/ WorkerExpires
  \/ WorkerStops

SpecTtl == InitTtl /\ [][NextTtl]_vars

\* ------------------- cache writes that fail: redis goes away within a request
\* lines 100-102 of update_avatar, for the user get_current_user returned: the
\* row is loaded, given the url, and committed
AvatarCommit(w, token, version) ==
  /\ req[w].pc = "idle"
  /\ LET got == get_current_user(token) IN
     IF got.raised
     THEN /\ req' = [req EXCEPT ![w] =
                       [pc |-> "done", user |-> None,
                        resp |-> Response("update_avatar_user", got.email,
                                          got.status, got.detail)]]
          /\ UNCHANGED <<users, cache>>
     ELSE LET email == got.value.email IN
          /\ users' = update_avatar(email, build_url(email, version))
          /\ cache' = got.store
          /\ req' = [req EXCEPT ![w] =
                       [pc |-> "committed", email |-> email, user |-> users'[email]]]
  /\ UNCHANGED <<now, past, issued, last, scenB, scenA, run, contacts, limiter, admitted>>

\* lines 103-105 of update_avatar: redis_client.delete, then the user is returned
AvatarDelete(w) ==
  /\ req[w].pc = "committed"
  /\ IF redis_unavailable
     THEN /\ cache' = cache
          /\ req' = [req EXCEPT ![w] =
                       [pc |-> "done", user |-> req[w].user,
                        resp |-> Response("update_avatar_user", req[w].email,
                                          ConnectionError.status,
                                          ConnectionError.detail)]]
     ELSE /\ cache' = redis_delete(req[w].email)
          /\ req' = [req EXCEPT ![w] =
                       [pc |-> "done", user |-> req[w].user,
                        resp |-> [Response("update_avatar_user", req[w].email, 200, "-")
                                    EXCEPT !.user = req[w].user]]]
  /\ UNCHANGED <<users, now, past, issued, last, scenB, scenA, run, contacts, limiter, admitted>>

WorkerCommits ==
  \E w \in Workers, t \in Minted("access token"), v \in Versions :
    AvatarCommit(w, t, v)

WorkerDeletes == \E w \in Workers : AvatarDelete(w)

InitWrite == InitWith(OneEmail, {"issued"})

NextWrite ==
  \/ Signup
  \/ Login
  \/ ConfirmMinted
  \/ RedisStops
  \/ RedisStarts
  \/ WorkerSets
  \/ WorkerExpires
  \/ WorkerCommits
  \/ WorkerDeletes

SpecWrite == InitWrite /\ [][NextWrite]_vars

\* ------------- get_current_user, split between the Users table and the cache
\* lines 171-189 of get_current_user: up to and including get_user_by_email
ResolveLoad(w, token) ==
  /\ req[w].pc = "idle"
  /\ LET decoded == access_token_email(token)
         Done(r, u) == req' = [req EXCEPT ![w] = [pc |-> "done", resp |-> r, user |-> u]]
     IN
     IF decoded.raised
     THEN Done(Response("read_users_me", NoEmail, decoded.status, decoded.detail), None)
     ELSE IF redis_unavailable
     THEN Done(Response("read_users_me", decoded.value, ConnectionError.status,
                        ConnectionError.detail), None)
     ELSE
     LET email == decoded.value
         cached == redis_get(email)
     IN
     IF cache_miss(cached)
     THEN LET user == get_user_by_email(email) IN
          IF user_missing(user)
          THEN Done(Response("read_users_me", email, 401, "User doesn't exist"), None)
          ELSE req' = [req EXCEPT ![w] = [pc |-> "loaded", email |-> email, user |-> user]]
     ELSE Done(Response("read_users_me", email, 200, "-"), pickle_loads(cached))
  /\ UNCHANGED <<users, cache, now, past, issued, last, scenB, scenA, run, contacts, limiter, admitted>>

\* lines 190-194 of get_current_user: the row loaded before is stored in the
\* cache with its expiry and returned
ResolveStore(w) ==
  /\ req[w].pc = "loaded"
  /\ IF redis_unavailable
     THEN /\ cache' = cache
          /\ req' = [req EXCEPT ![w] =
                       [pc |-> "done", user |-> None,
                        resp |-> Response("read_users_me", req[w].email,
                                          ConnectionError.status,
                                          ConnectionError.detail)]]
     ELSE /\ cache' = redis_set_expire(req[w].email, pickle_dumps(req[w].user), CACHE_TTL)
          /\ req' = [req EXCEPT ![w] =
                       [pc |-> "done", user |-> req[w].user,
                        resp |-> [Response("read_users_me", req[w].email, 200, "-")
                                    EXCEPT !.user = req[w].user]]]
  /\ UNCHANGED <<users, now, past, issued, last, scenB, scenA, run, contacts, limiter, admitted>>

WorkerLoads == \E w \in Workers, t \in Minted("access token") : ResolveLoad(w, t)

WorkerStores == \E w \in Workers : ResolveStore(w)

InitStale == InitWith(OneEmail, {"issued"})

NextStale ==
  \/ Signup
  \/ ConfirmMinted
  \/ Login
  \/ WorkerLoads
  \/ WorkerStores
  \/ WorkerCommits
  \/ WorkerDeletes

SpecStale == InitStale /\ [][NextStale]_vars

\* ------------------------------------ signup on several workers, one table
\* lines 31-33 of signup: the existence check in this request's own session
SignupCheck(w, body) ==
  /\ req[w].pc = "idle"
  /\ LET exist_user == get_user_by_email(body.email) IN
     IF account_exists(exist_user)
     THEN req' = [req EXCEPT ![w] =
                    [pc |-> "done", email |-> body.email, during |-> {},
                     resp |-> Response("signup", body.email, 409,
                                       "Account already exists")]]
     ELSE req' = [req EXCEPT ![w] =
                    [pc |-> "checked", email |-> body.email, body |-> body,
                     during |-> {v \in Workers \ {w} :
                                   /\ req[v].pc = "checked"
                                   /\ req[v].email = body.email}]]
  /\ UNCHANGED <<users, cache, now, past, issued, last, scenB, scenA, run, contacts, limiter, admitted>>

\* what the client gets when the commit of create_user raises IntegrityError:
\* get_db turns it into HTTPException(400); whether that still becomes the
\* response or the request ends with 500 depends on the FastAPI release
IntegrityErrorStatus == {400, 500}

\* lines 34-37 of signup: create_user and the response. Users.email is unique:
\* the INSERT of a second row with the email raises IntegrityError
SignupCreate(w) ==
  /\ req[w].pc = "checked"
  /\ LET body == req[w].body
         hashed == [body EXCEPT !.password = get_hashed_password(body.password)]
         Done(r) == req' = [req EXCEPT ![w] = [pc |-> "done", email |-> body.email,
                                              during |-> req[w].during, resp |-> r]]
     IN
     IF users[body.email] # None
     THEN /\ \E code \in IntegrityErrorStatus :
               Done(Response("signup", body.email, code, "IntegrityError"))
          /\ users' = users
     ELSE LET user == create_user(hashed) IN
          /\ users' = [users EXCEPT ![body.email] = user]
          /\ Done([Response("signup", body.email, 201, "User successfully created")
                     EXCEPT !.user = user])
  /\ UNCHANGED <<cache, now, past, issued, last, scenB, scenA, run, contacts, limiter, admitted>>

WorkerChecks ==
  \E w \in Workers, e \in run.emails :
    SignupCheck(w, [username |-> "bob", email |-> e, password |-> "pw"])

WorkerCreates == \E w \in Workers : SignupCreate(w)

InitSignup == InitWith(Emails, {})

NextSignup ==
  \/ WorkerChecks
  \/ WorkerCreates
  \/ Login
  \/ ConfirmedEmail
  \/ ClockSecond

SpecSignup == InitSignup /\ [][NextSignup]_vars

\* ------------------------------------------------- the routes of /contacts
\* two clients and their contacts: signup, confirmation, login, then the
\* contacts routes with the access tokens the logins returned
Bodies ==
  {[first_name |-> "Ann", last_name |-> "Lee", email |-> "ann@x.com",
    phone |-> "+380(44)111-11-11", birth_date |-> date(1960, 1, 10),
    additional_data |-> None],
   [first_name |-> "Bob", last_name |-> "Lee", email |-> "bob@x.com",
    phone |-> "+380(44)222-22-22", birth_date |-> date(1960, 2, 29),
    additional_data |-> None]}

ContactIds == 1..MaxContacts

\* limit and skip of a request: the defaults, and the second page of pages of one
Pages == {[limit |-> 10, skip |-> 0], [limit |-> 1, skip |-> 1]}

GetContacts ==
  \E t \in Minted("access token"), page \in Pages :
    RateLimiter("get_contacts", get_contacts(t, page.limit, page.skip))

GetWeekBirthdayPeople ==
  \E t \in Minted("access token") :
    RateLimiter("get_week_birthday_people", get_week_birthday_people(t))

GetContactById ==
  \E t \in Minted("access token"), id \in ContactIds :
    RateLimiter("get_contact_by_id", get_contact_by_id(t, id))

GetContactByFirstName ==
  \E t \in Minted("access token"), body \in Bodies :
    RateLimiter("get_contact_by_first_name", get_contact_by_first_name(t, body.first_name))

GetContactByLastName ==
  \E t \in Minted("access token"), last_name \in {body.last_name : body \in Bodies} :
    RateLimiter("get_contact_by_last_name", get_contact_by_last_name(t, last_name))

GetContactByEmail ==
  \E t \in Minted("access token"), body \in Bodies :
    RateLimiter("get_contact_by_email", get_contact_by_email(t, body.email))

CreateContact ==
  /\ contacts.seq < MaxContacts
  /\ \E t \in Minted("access token"), body \in Bodies :
       RateLimiter("create_contact", create_contact(t, body))

UpdateContact ==
  \E t \in Minted("access token"), body \in Bodies, id \in ContactIds :
    RateLimiter("update_contact", update_contact(t, body, id))

RemoveContact ==
  \E t \in Minted("access token"), id \in ContactIds :
    RateLimiter("remove_contact", remove_contact(t, id))

InitContacts == InitWith(Emails, {"issued"})

NextContacts ==
  \/ Signup
  \/ ConfirmMinted
  \/ Login
  \/ GetContacts
  \/ GetContactById
  \/ GetContactByFirstName
  \/ GetContactByLastName
  \/ GetContactByEmail
  \/ CreateContact
  \/ UpdateContact
  \/ RemoveContact

SpecContacts == InitContacts /\ [][NextContacts]_vars

\* ------------------------------------------------ the rate limiter's count
\* one client that sends its requests to one of the protected routes, whose
\* key in redis and whose admitted requests the behaviour records
LimiterClockSteps == {1, seconds - 1}

LimiterClock == \E d \in LimiterClockSteps : Tick(d)

InitLimiter == \E op \in ProtectedRoutes : InitWith(OneEmail, {"issued", op})

NextLimiter ==
  \/ Signup
  \/ ConfirmMinted
  \/ Login
  \/ LimiterClock
  \/ Tracked("read_users_me") /\ ReadMinted
  \/ Tracked("update_avatar_user") /\ UpdateAvatarUser
  \/ Tracked("get_contacts") /\ GetContacts
  \/ Tracked("get_week_birthday_people") /\ GetWeekBirthdayPeople
  \/ Tracked("get_contact_by_id") /\ GetContactById
  \/ Tracked("get_contact_by_first_name") /\ GetContactByFirstName
  \/ Tracked("get_contact_by_last_name") /\ GetContactByLastName
  \/ Tracked("get_contact_by_email") /\ GetContactByEmail
  \/ Tracked("create_contact") /\ CreateContact
  \/ Tracked("update_contact") /\ UpdateContact
  \/ Tracked("remove_contact") /\ RemoveContact

SpecLimiter == InitLimiter /\ [][NextLimiter]_vars

\* ------------------------------------------------ the birthdays of the week
\* the server runs on one of these days; one client creates contacts born on
\* these days and asks for the birthdays of the week
Todays ==
  {date(1971, 1, 10), date(1971, 1, 25), date(1971, 1, 26),
   date(1971, 2, 22), date(1972, 2, 23), date(1971, 12, 31)}

BirthDates ==
  {date(1960, 1, 10), date(1960, 1, 16), date(1960, 1, 17), date(1960, 1, 18),
   date(1960, 1, 31), date(1960, 2, 29)}

BornOn(d) ==
  [first_name |-> "Ann", last_name |-> "Lee", email |-> "ann@x.com",
   phone |-> "+380(44)111-11-11", birth_date |-> d, additional_data |-> None]

CreateBorn ==
  /\ contacts.seq < MaxContacts
  /\ \E t \in Minted("access token"), d \in BirthDates :
       RateLimiter("create_contact", create_contact(t, BornOn(d)))

InitBirthday ==
  \E today \in Todays :
    InitAt(OneEmail, {"issued"}, days_since_epoch(today) * SECONDS_PER_DAY)

NextBirthday ==
  \/ Signup
  \/ ConfirmMinted
  \/ Login
  \/ CreateBorn
  \/ GetWeekBirthdayPeople

SpecBirthday == InitBirthday /\ [][NextBirthday]_vars

\* ----------------------------------------------------------------- claims
Issuing == {"login", "refresh_token"}

\* this step is a request to op: it leaves op's response and the clock stands
StepOf(op) == last'.op = op /\ now' = now

\* C1: after every successful login or refresh for an identity, the refresh token
\* stored on its row equals the refresh token the response returned.
C1_StoredIsReturned ==
  (last.op \in Issuing /\ last.status = 200)
    => users[last.email].refresh_token = last.refresh_token

C1_Witness ==
  /\ last.op = "refresh_token" /\ last.status = 200
  /\ last.refresh_token # None
  /\ users[last.email].refresh_token = last.refresh_token

\* C2: the refresh token a successful login or refresh returns differs from every
\* refresh token issued before for that identity, also when two issuing requests
\* fall at the same clock reading.
C2_NeverReissued ==
  [][(last'.op \in Issuing /\ last'.status = 200 /\ (Login \/ RefreshToken))
       => last'.refresh_token \notin issued]_vars

\* C3: a refresh with a token that decodes (signature, expiry and refresh scope in
\* order) and differs from the token stored on its identity answers 401
\* "Invalid refresh token" and empties the stored token; a refresh succeeds only
\* with the stored token, and an empty stored token becomes non-empty only by a
\* successful login, so every refresh after the forced logout fails until then.
C3_Revocation ==
  [][/\ StepOf("refresh_token") =>
          \A t \in {x \in SignedTokens : x.payload.scope = "refresh token"} :
            refresh_token(t) =>
              LET decoded == decode_refresh_token(t) IN
              /\ (/\ ~decoded.raised
                  /\ users[decoded.value] # None
                  /\ t # users[decoded.value].refresh_token)
                   => /\ last'.status = 401
                      /\ last'.detail = "Invalid refresh token"
                      /\ users'[decoded.value].refresh_token = None
              /\ last'.status = 200
                   => /\ ~decoded.raised
                      /\ users[decoded.value] # None
                      /\ users[decoded.value].refresh_token = t
     /\ \A e \in Emails :
          (/\ users[e] # None /\ users'[e] # None
           /\ users[e].refresh_token = None
           /\ users'[e].refresh_token # None)
            => last'.op = "login" /\ last'.status = 200 /\ last'.email = e]_vars

C3_Witness ==
  /\ last.op = "refresh_token" /\ last.status = 401
  /\ last.detail = "Invalid refresh token"
  /\ users[last.email].refresh_token = None
  /\ users[last.email].confirmed

\* C4: after a successful login, of two refreshes with the refresh token that login
\* returned the first succeeds and the second answers 401, whatever the time
\* between the login and the first refresh.
C4_ScenarioB ==
  /\ scenB.stage >= 2 => scenB.first.status = 200
  /\ scenB.stage = 3 => scenB.second.status = 401

\* C5: of two refresh requests that present the same token and run concurrently
\* (the second loads the row before the first has written), at most one returns
\* a new token pair.
C5_OneUse ==
  \A w1 \in Workers, w2 \in Workers :
    (/\ w1 # w2
     /\ req[w1].pc = "done" /\ req[w2].pc = "done"
     /\ req[w1].token = req[w2].token
     /\ w1 \in req[w2].during)
      => ~(req[w1].resp.status = 200 /\ req[w2].resp.status = 200)

\* the request of this step was rejected and wrote nothing
Rejected ==
  /\ last'.status >= 400
  /\ last'.access_token = None /\ last'.refresh_token = None /\ last'.user = None
  /\ users' = users
  /\ cache' = cache
  /\ issued' = issued

\* rejected for its scope, when nothing else is wrong with the token
RejectedForScope(t) ==
  /\ Rejected
  /\ ~IsJWTError(jwt_decode(t, SECRET_KEY, ALGORITHM))
       => last'.status = 401 /\ last'.detail = "Invalid scope for token"

\* C6: a token minted with one scope is rejected by the operation that expects
\* another (get_current_user expects access, refresh expects refresh, confirm
\* expects email), and the rejecting operation changes neither the Users table
\* nor the cache.
C6_ScopeIsolation ==
  [][/\ StepOf("refresh_token") =>
          \A t \in {x \in SignedTokens : x.payload.scope # "refresh token"} :
            refresh_token(t) => RejectedForScope(t)
     /\ StepOf("confirmed_email") =>
          \A t \in {x \in SignedTokens : x.payload.scope # "email token"} :
            confirmed_email(t) => RejectedForScope(t)
     /\ StepOf("read_users_me") =>
          \A t \in {x \in SignedTokens : x.payload.scope # "access token"} :
            read_users_me(t) => RejectedForScope(t)]_vars

C6_Witness ==
  /\ last.op = "refresh_token" /\ last.detail = "Invalid scope for token"
  /\ \E e \in Emails : /\ cache[e] # None
                       /\ users[e] # None
                       /\ users[e].refresh_token # None

\* C7: login checks identity-exists, confirmed, password-matches in this order and
\* answers the first violated one: no row gives 401 "Invalid email", an unconfirmed
\* row gives 401 "Email not confirmed" also with a wrong password, a confirmed row
\* with a wrong password gives 401 "Invalid password".
C7_LoginOrder ==
  [][\A e \in Emails, p \in Passwords :
       (StepOf("login") /\ login([username |-> e, password |-> p])) =>
         IF users[e] = None
         THEN last'.status = 401 /\ last'.detail = "Invalid email"
         ELSE IF ~users[e].confirmed
         THEN last'.status = 401 /\ last'.detail = "Email not confirmed"
         ELSE ~verify_password(p, users[e].password)
                => last'.status = 401 /\ last'.detail = "Invalid password"]_vars

C7_Witness ==
  /\ last.op = "login" /\ last.detail = "Email not confirmed"
  /\ users[last.email] # None
  /\ ~verify_password(last.password, users[last.email].password)

\* C8: in the sequence signup, login, confirm, login for one email with the
\* password of the signup, the first login answers 401 "Email not confirmed" and
\* issues no token, the confirmation with a generated email token answers
\* "Email confirmed", and the second login answers 200 with a bearer token pair.
C8_ScenarioA ==
  /\ scenA.stage >= 2
       => /\ scenA.login1.status = 401
          /\ scenA.login1.detail = "Email not confirmed"
          /\ scenA.login1.access_token = None
          /\ scenA.login1.refresh_token = None
          /\ scenA.stored1 = None
  /\ scenA.stage >= 3
       => scenA.confirm.status = 200 /\ scenA.confirm.detail = "Email confirmed"
  /\ scenA.stage = 4
       => /\ scenA.login2.status = 200
          /\ scenA.login2.token_type = "bearer"
          /\ scenA.login2.access_token # None
          /\ scenA.login2.refresh_token # None

C8_Witness == scenA.stage = 4 /\ scenA.login2.status = 200

Rows(table) == {e \in Emails : table[e] # None}

\* C9: a signup for an email without a row creates exactly one row, with
\* confirmed = false and no stored refresh token, and issues no access or refresh
\* token.
C9_Signup ==
  [][\A e \in Emails :
       (/\ users[e] = None
        /\ StepOf("signup")
        /\ signup([username |-> "bob", email |-> e, password |-> "pw"]))
         => /\ last'.status = 201
            /\ Rows(users') = Rows(users) \cup {e}
            /\ \A o \in Emails \ {e} : users'[o] = users[o]
            /\ users'[e].confirmed = FALSE
            /\ users'[e].refresh_token = None
            /\ last'.access_token = None /\ last'.refresh_token = None
            /\ issued' = issued]_vars

C9_Witness ==
  /\ last.op = "signup" /\ last.status = 201
  /\ users[last.email].confirmed = FALSE
  /\ users[last.email].refresh_token = None
  /\ Cardinality(Rows(users)) = 2

\* C10: a signup for an email that has a row answers 409 "Account already exists"
\* and leaves the Users table as it was.
C10_RepeatSignup ==
  [][\A e \in Emails :
       (/\ users[e] # None
        /\ StepOf("signup")
        /\ signup([username |-> "bob", email |-> e, password |-> "pw"]))
         => /\ last'.status = 409
            /\ last'.detail = "Account already exists"
            /\ users' = users]_vars

C10_Witness ==
  /\ last.op = "signup" /\ last.status = 409
  /\ users[last.email].confirmed
  /\ users[last.email].refresh_token # None

\* C11: of two signup requests for one email that run concurrently (the second
\* passes the existence check before the first has created the row), the Users
\* table ends with one row for the email, one request answers 201 and the other
\* answers 409.
C11_ConcurrentSignup ==
  \A w1 \in Workers, w2 \in Workers :
    (/\ w1 # w2
     /\ req[w1].pc = "done" /\ req[w2].pc = "done"
     /\ req[w1].email = req[w2].email
     /\ w1 \in req[w2].during)
      => /\ users[req[w1].email] # None
         /\ {req[w1].resp.status, req[w2].resp.status} = {201, 409}

\* the email tokens that decode now
ValidEmailTokens ==
  {t \in SignedTokens : /\ t.payload.scope = "email token"
                        /\ ~get_email_from_token(t).raised}

\* C12: a confirmation for an identity that is already confirmed, with any valid
\* email token for it, answers 200 "Your email is already confirmed" and writes
\* neither the Users table nor the cache; a first confirmation leaves the row
\* confirmed, so a second one after it changes nothing more.
C12_ConfirmIdempotent ==
  [][StepOf("confirmed_email") =>
       \A t \in ValidEmailTokens :
         (confirmed_email(t) /\ users[t.payload.sub] # None) =>
           IF users[t.payload.sub].confirmed
           THEN /\ last'.status = 200
                /\ last'.detail = "Your email is already confirmed"
                /\ users' = users
                /\ cache' = cache
           ELSE users'[t.payload.sub].confirmed]_vars

C12_Witness ==
  /\ last.op = "confirmed_email"
  /\ last.detail = "Your email is already confirmed"
  /\ cache[last.email] # None
  /\ users[last.email].refresh_token # None

\* C13: a confirmation with a valid email token whose subject has no row answers
\* 400 "Verification error" and leaves the Users table as it was.
C13_UnknownSubject ==
  [][StepOf("confirmed_email") =>
       \A t \in ValidEmailTokens :
         (confirmed_email(t) /\ users[t.payload.sub] = None) =>
           /\ last'.status = 400
           /\ last'.detail = "Verification error"
           /\ users' = users
           /\ cache' = cache]_vars

C13_Witness ==
  /\ last.op = "confirmed_email" /\ last.status = 400
  /\ last.detail = "Verification error"
  /\ last.email \in Emails
  /\ users[last.email] = None

\* the last request resolved an identity and returned it
Resolved == last.op = "read_users_me" /\ last.status = 200

\* C14: after an avatar update for an email, with or without a cache entry for it
\* before, the cache holds no entry for the email and the row has the new
\* avatar; every identity resolution returns the avatar the row has, never an
\* earlier one.
C14_AvatarCoherent ==
  /\ (last.op = "update_avatar_user" /\ last.status = 200)
       => /\ users[last.email].avatar = last.user.avatar
          /\ cache[last.email] = None
  /\ Resolved => last.user.avatar = users[last.email].avatar

C14_Witness ==
  /\ Resolved
  /\ "cloudinary" \in DOMAIN last.user.avatar
  /\ last.user.avatar.version = 2

C16_TokenCoherent ==
  Resolved => last.user.refresh_token = users[last.email].refresh_token

\* the access tokens that decode now
ValidAccessTokens ==
  {t \in SignedTokens : /\ t.payload.scope = "access token"
                        /\ ~access_token_email(t).raised}

\* C17: an identity resolution with a valid access token for an email whose cache
\* entry is there returns the cached snapshot and writes neither the cache nor
\* the Users table; the row is not consulted, the snapshot is returned also when
\* the row differs from it.
C17_CacheHit ==
  [][StepOf("read_users_me") =>
       \A t \in ValidAccessTokens :
         (read_users_me(t) /\ redis_get(t.payload.sub) # None) =>
           /\ last'.status = 200
           /\ last'.user = pickle_loads(cache[t.payload.sub].value)
           /\ cache' = cache
           /\ users' = users]_vars

C17_Witness ==
  /\ Resolved
  /\ cache[last.email] # None
  /\ cache[last.email].set_at.sec < now.sec
  /\ last.user # users[last.email]

\* C18: an identity resolution with a valid access token for an email without a
\* cache entry reads the Users table: without a row it answers 401 "User doesn't
\* exist" and writes no cache entry; with a row it stores the row under the
\* email with an expiry 900 seconds from now and returns the row.
C18_CacheMiss ==
  [][StepOf("read_users_me") =>
       \A t \in ValidAccessTokens :
         (read_users_me(t) /\ redis_get(t.payload.sub) = None) =>
           LET e == t.payload.sub IN
           IF users[e] = None
           THEN /\ last'.status = 401
                /\ last'.detail = "User doesn't exist"
                /\ cache' = cache
                /\ users' = users
           ELSE /\ last'.status = 200
                /\ last'.user = users[e]
                /\ cache' = [cache EXCEPT ![e] =
                               [value |-> pickle_dumps(users[e]), set_at |-> now,
                                expire_at |-> plus(now, 900)]]
                /\ users' = users]_vars

C18_Witness ==
  /\ Resolved
  /\ cache[last.email] # None
  /\ cache[last.email].set_at = now
  /\ now.sec >= REFRESH_DAYS * SECONDS_PER_DAY
  /\ last.user = users[last.email]
  /\ users[last.email].refresh_token # None

\* C19: every cache entry an identity resolution wrote has an expiry, at most 900
\* seconds after the entry became readable, also when the request ended between
\* the cache write and the expiry command (stated for the states where no
\* request stands between the two commands).
C19_BoundedTtl ==
  (\A w \in Workers : req[w].pc # "set") =>
    \A e \in Emails :
      cache[e] # None =>
        /\ cache[e].expire_at # NoExpiry
        /\ cache[e].expire_at.sec <= cache[e].set_at.sec + 900

\* C20: when the redis service does not answer the read of an identity
\* resolution, the resolution goes on to the Users table: a request with a valid
\* access token for an email that has a row answers 200 with the row.
C20_FailOpen ==
  [][StepOf("read_users_me") =>
       \A t \in ValidAccessTokens :
         (/\ read_users_me(t)
          /\ redis_unavailable
          /\ users[t.payload.sub] # None)
           => /\ last'.status = 200
              /\ last'.user = users[t.payload.sub]]_vars

\* C21: a cache write that fails does not fail its request: a request that has
\* read its row from the Users table, or has committed the new avatar, answers
\* 200 with that row also when its expire or delete command fails.
C21_WriteFailOpen ==
  \A w \in Workers :
    (req[w].pc = "done" /\ req[w].user # None) => req[w].resp.status = 200

\* the tokens a client can send that jwt.decode rejects: the string that is no
\* token, the tokens with a wrong signature, the expired ones
DefectiveTokens ==
  {t \in PresentedTokens : IsJWTError(jwt_decode(t, SECRET_KEY, ALGORITHM))}

\* the response has the status and the detail of this exception
Answers(exc) == last'.status = exc.status /\ last'.detail = exc.detail

\* C22: for each of refresh, confirm and identity resolution, a token with a bad
\* signature, a malformed token and an expired token get one and the same
\* response, the one the malformed token gets.
C22_SingleOutcome ==
  [][/\ StepOf("refresh_token") =>
          \A t \in DefectiveTokens :
            refresh_token(t) => Answers(decode_refresh_token(Malformed))
     /\ StepOf("confirmed_email") =>
          \A t \in DefectiveTokens :
            confirmed_email(t) => Answers(get_email_from_token(Malformed))
     /\ StepOf("read_users_me") =>
          \A t \in DefectiveTokens :
            read_users_me(t) => Answers(access_token_email(Malformed))]_vars

\* what the operation a token is meant for makes of it
Decoded(t) ==
  CASE t.payload.scope = "access token" -> access_token_email(t)
    [] t.payload.scope = "refresh token" -> decode_refresh_token(t)
    [] t.payload.scope = "email token" -> get_email_from_token(t)

\* the expiry policy: 15 minutes for access tokens, 7 days for the others
PolicySeconds(scope) == IF scope = "access token" THEN 15 * 60 ELSE 7 * 24 * 60 * 60

\* C23: a token that was issued is accepted by its operation exactly while the
\* clock is before its expiry, the issue time plus 15 minutes for an access token and plus 7 days
\* for a refresh or email token; a refresh with an expired token that equals the
\* stored one leaves the stored token as it is.
C23_Expiry ==
  [][/\ \A t \in issued :
          ~Decoded(t).raised <=> now.sec < t.payload.iat + PolicySeconds(t.payload.scope)
     /\ StepOf("refresh_token") =>
          \A e \in Emails :
            (/\ users[e] # None
             /\ users[e].refresh_token # None
             /\ decode_refresh_token(users[e].refresh_token).raised
             /\ refresh_token(users[e].refresh_token))
              => users' = users /\ last'.status = 401]_vars

\* C24: every refresh request ends with 200 and a new pair of tokens, or with
\* 401; a signed, unexpired refresh token whose subject has no row is answered
\* with 401.
C24_RefreshOutcomes ==
  last.op = "refresh_token" =>
    \/ /\ last.status = 200
       /\ last.access_token # None
       /\ last.refresh_token # None
    \/ last.status = 401

\* C25: request_email answers 200 with "Your email is already confirmed"
\* exactly when the email has a confirmed row and with "Check your email for
\* confirmation" otherwise, so the answer for an email with no row and for one
\* with an unconfirmed row is the same; it changes no row and no cache entry,
\* and a second request right after it is answered as the first was.
C25_RequestEmail ==
  [][StepOf("request_email") =>
       \A e \in Emails :
         request_email([email |-> e]) =>
           /\ last'.status = 200
           /\ last'.detail =
                IF users[e] # None /\ users[e].confirmed
                THEN "Your email is already confirmed"
                ELSE "Check your email for confirmation"
           /\ users' = users
           /\ cache' = cache
           /\ request_email_message(users'[e]) = last'.detail]_vars

\* a request for an email with no row has been answered, and no mail was sent
C25_Witness ==
  /\ last.op = "request_email"
  /\ last.detail = "Check your email for confirmation"
  /\ users[last.email] = None
  /\ last.mail = None

\* the access tokens returned so far that have not reached their expiry
UnexpiredAccessTokens ==
  {t \in issued : t.payload.scope = "access token" /\ now.sec < t.payload.exp}

\* C27: identity resolution accepts an access token on its signature, expiry
\* and scope alone: every access token returned so far that has not expired is
\* accepted, whatever refresh token its identity's row stores now, also after a
\* forced logout has cleared it or a later login has replaced it.
C27_Stateless ==
  \A t \in UnexpiredAccessTokens :
    /\ ~access_token_email(t).raised
    /\ ~get_current_user(t).raised
    /\ get_current_user(t).value.email = t.payload.sub

\* GET /users/me has answered 200 to an identity whose stored refresh token a
\* forced logout has cleared, with one access token of an earlier login and one
\* of a later login outstanding
C27_Witness ==
  /\ last.op = "read_users_me"
  /\ last.status = 200
  /\ users[last.email].refresh_token = None
  /\ \E t1, t2 \in UnexpiredAccessTokens :
       /\ t1.payload.sub = last.email
       /\ t2.payload.sub = last.email
       /\ t1.payload.iat < t2.payload.iat

\* C26: each protected route (every /contacts route, GET /users/me and PATCH
\* /users/avatar) lets through no more than 2 requests of one client in any
\* window of 5 seconds: three requests let through never lie less than 5
\* seconds apart from the first to the third.
C26_RateLimited ==
  \A op \in ProtectedRoutes :
    (Tracked(op) /\ Len(admitted) = times + 1) =>
      admitted[times + 1] - admitted[1] >= seconds

ContactRoutes == ProtectedRoutes \ {"read_users_me", "update_avatar_user"}

\* the contacts a response carries
Sent(r) ==
  IF r.body = None THEN {}
  ELSE IF "list" \in DOMAIN r.body THEN {r.body.list[i] : i \in 1..Len(r.body.list)}
  ELSE IF "people" \in DOMAIN r.body THEN r.body.people
  ELSE {r.body}

\* the request of this step came with an access token that was accepted
Authenticated == last'.status \in {200, 201, 204, 404}

\* C28: a contact that a user creates carries that user's id, and the contacts
\* routes called by a user never return, change or delete a row whose user_id is
\* not that user's id; no other route touches the Contacts table.
C28_Isolation ==
  [][IF last'.op \in ContactRoutes /\ Authenticated
     THEN LET caller == users[last'.email] IN
          /\ \A c \in contacts'.rows :
               (\A d \in contacts.rows : d.id # c.id) =>
                 /\ last'.op = "create_contact"
                 /\ c.user_id = caller.id
                 /\ last'.body = ContactResponseModel(c)
          /\ \A c \in contacts.rows \ contacts'.rows :
               /\ last'.op \in {"update_contact", "remove_contact"}
               /\ c.user_id = caller.id
               /\ \A d \in contacts'.rows : d.id = c.id => d.user_id = caller.id
          /\ \A r \in Sent(last') :
               \E c \in contacts.rows \cup contacts'.rows :
                 /\ c.id = r.id
                 /\ c.user_id = caller.id
                 /\ ContactResponseModel(c) = r
     ELSE contacts' = contacts /\ Sent(last') = {}]_vars

\* a user has listed their contacts while the table also holds a row of the
\* other user
C28_Witness ==
  /\ last.op = "get_contacts"
  /\ last.status = 200
  /\ Sent(last) # {}
  /\ \E c \in contacts.rows : c.user_id # users[last.email].id
  /\ \E c \in contacts.rows : c.user_id = users[last.email].id

\* the rows with this id that belong to the user
OwnRows(contact_id, user) ==
  {c \in contacts.rows : c.id = contact_id /\ c.user_id = user.id}

\* C29: update_contact and remove_contact for an id that is not a row of the
\* caller (a row of another user, or no row) return None, answered with 404, and
\* leave the Contacts table as it was; remove_contact for a row of the caller
\* deletes that row and no other and returns it; update_contact for a row of
\* the caller changes that row and no other.
C29_NotFound ==
  [][/\ (StepOf("remove_contact") /\ Authenticated) =>
          \A t \in issued, id \in ContactIds :
            (/\ t.payload.scope = "access token"
             /\ t.payload.sub = last'.email
             /\ remove_contact(t, id)) =>
              LET user == get_current_user(t).value
                  own == OwnRows(id, user)
                  removed == repository_remove_contact(id, user)
              IN IF own = {}
                 THEN /\ removed.value = None
                      /\ last'.status = 404
                      /\ contacts' = contacts
                 ELSE /\ own = {removed.value}
                      /\ last'.status = 204
                      /\ contacts'.rows = contacts.rows \ own
                      /\ contacts'.seq = contacts.seq
     /\ (StepOf("update_contact") /\ Authenticated) =>
          \A t \in issued, id \in ContactIds, body \in Bodies :
            (/\ t.payload.scope = "access token"
             /\ t.payload.sub = last'.email
             /\ update_contact(t, body, id)) =>
              LET user == get_current_user(t).value
                  own == OwnRows(id, user)
                  updated == repository_update_contact(body, id, user)
              IN IF own = {}
                 THEN /\ updated.value = None
                      /\ last'.status = 404
                      /\ contacts' = contacts
                 ELSE /\ last'.status = 200
                      /\ contacts'.rows \ {updated.value} = contacts.rows \ own
                      /\ updated.value.id = id
                      /\ updated.value.user_id = user.id]_vars

\* remove_contact has answered 404 to a user while every id that a request can
\* name is a row of the other user
C29_Witness ==
  /\ last.op = "remove_contact"
  /\ last.status = 404
  /\ \A id \in ContactIds :
       \E c \in contacts.rows : c.id = id /\ c.user_id # users[last.email].id

\* this year's birthday of the contact is one of the 7 days that start today
BirthdayInWeek(contact) ==
  LET today == date_today
      month == contact.birth_date.month
      day == contact.birth_date.day
  IN /\ day <= days_in_month(today.year, month)
     /\ days_since_epoch([year |-> today.year, month |-> month, day |-> day])
          - days_since_epoch(today) \in 0..6

\* C30: on every day, the last six days of a month included, and for every set
\* of contacts of the user, get_week_birthday_people answers 200 with exactly
\* the user's contacts whose birthday of this year is one of the 7 days that
\* start today.
C30_WeekBirthdays ==
  [][StepOf("get_week_birthday_people") =>
       \A t \in Minted("access token") :
         (get_week_birthday_people(t) /\ ~get_current_user(t).raised) =>
           LET user == get_current_user(t).value IN
           /\ last'.status = 200
           /\ Sent(last') =
                {ContactResponseModel(c) :
                   c \in {c \in contacts.rows : c.user_id = user.id /\ BirthdayInWeek(c)}}]_vars

\* every worker's request has completed with a token pair
AllSucceeded ==
  \A w \in Workers : req[w].pc = "done" /\ req[w].resp.status = 200

\* C31: when concurrent logins and refreshes for one identity have all completed
\* with success, in whatever order their reads and writes were interleaved, the
\* refresh token stored on the row is the one that one of them returned: it is
\* not empty and not a token that none of them returned.
C31_LastWriterWins ==
  AllSucceeded =>
    \A e \in run.emails :
      /\ users[e].refresh_token # None
      /\ \E w \in Workers : users[e].refresh_token = req[w].resp.refresh_token

\* a login and a refresh that overlapped have both succeeded and returned
\* different refresh tokens
C31_Witness ==
  /\ AllSucceeded
  /\ \E w1, w2 \in Workers :
       /\ req[w1].resp.op = "login" /\ req[w2].resp.op = "refresh_token"
       /\ w1 \in req[w2].during \/ w2 \in req[w1].during
       /\ req[w1].resp.refresh_token # req[w2].resp.refresh_token

\* C32: when an identity resolution for an email that missed the cache and an
\* avatar update for the same email have both completed, however their steps
\* were interleaved, the cache holds no entry for the email or an entry with
\* the new avatar: the snapshot loaded before the update's commit is not in
\* the cache after the update's delete.
C32_NoStaleSnapshot ==
  \A w1, w2 \in Workers :
    (/\ req[w1].pc = "done" /\ req[w2].pc = "done"
     /\ req[w1].resp.op = "read_users_me" /\ req[w1].resp.status = 200
     /\ req[w2].resp.op = "update_avatar_user" /\ req[w2].resp.status = 200
     /\ req[w1].resp.email = req[w2].resp.email)
      => \/ redis_get(req[w1].resp.email) = None
         \/ pickle_loads(redis_get(req[w1].resp.email)).avatar = req[w2].resp.user.avatar

\* C33: the confirmed flag of a row is false when signup creates the row, is
\* never set back to false, and becomes true only in a confirmation that answers
\* 200 "Email confirmed" to a valid email token whose subject is that row's
\* email; rows are never removed.
C33_ConfirmedMonotonic ==
  [][\A e \in Emails :
       IF users[e] = None
       THEN users'[e] # None =>
              /\ ~users'[e].confirmed
              /\ StepOf("signup") /\ last'.status = 201 /\ last'.email = e
       ELSE /\ users'[e] # None
            /\ users[e].confirmed => users'[e].confirmed
            /\ (~users[e].confirmed /\ users'[e].confirmed) =>
                 /\ StepOf("confirmed_email")
                 /\ last'.status = 200 /\ last'.detail = "Email confirmed"
                 /\ last'.email = e
                 /\ \E t \in ValidEmailTokens :
                      t.payload.sub = e /\ confirmed_email(t)]_vars

C33_Witness ==
  /\ last.op = "confirmed_email" /\ last.detail = "Email confirmed"
  /\ users[last.email].confirmed
  /\ \E o \in Emails \ {last.email} : users[o] # None /\ ~users[o].confirmed

\* C34: in every reachable state a row that stores a refresh token is
\* confirmed: no sequence of signup, login, refresh, confirm and request_email
\* stores a refresh token on an unconfirmed identity.
C34_StoredTokenIsConfirmed ==
  \A e \in Emails :
    (users[e] # None /\ users[e].refresh_token # None) => users[e].confirmed

\* a refresh with a signed refresh token for a row that is not confirmed was
\* answered, while another row stores a token
C34_Witness ==
  /\ last.op = "refresh_token" /\ last.email # NoEmail
  /\ users[last.email] # None /\ ~users[last.email].confirmed
  /\ last.status = 401
  /\ \E o \in Emails : users[o] # None /\ users[o].refresh_token # None

\* C35: every access token that leaves the system has as subject a row that is
\* confirmed when the token is issued, so get_current_user succeeds only for
\* confirmed rows and every snapshot the cache holds has confirmed = true.
C35_OnlyConfirmedSubjects ==
  [][/\ \A t \in issued' \ issued :
          t.payload.scope = "access token" =>
            /\ users[t.payload.sub] # None
            /\ users[t.payload.sub].confirmed
     /\ \A e \in run.emails :
          cache'[e] # None => pickle_loads(cache'[e].value).confirmed
     /\ (/\ last'.op \in {"read_users_me", "update_avatar_user"}
         /\ last'.status = 200)
          => last'.user.confirmed /\ users'[last'.email].confirmed]_vars

C35_Witness ==
  /\ last.op = "read_users_me" /\ last.status = 200 /\ last.user.confirmed
  /\ cache[last.email] # None
  /\ pickle_loads(cache[last.email].value).confirmed
  /\ \E t \in issued : t.payload.scope = "access token" /\ t.payload.sub = last.email

\* the login of this body does not meet one of the three preconditions
LoginFails(e, p) ==
  \/ users[e] = None
  \/ ~users[e].confirmed
  \/ ~verify_password(p, users[e].password)

\* C36: a login that fails one of its three preconditions (no row, row not
\* confirmed, wrong password) answers 401, issues no token and leaves the stored
\* refresh token, the confirmed flag and the cache as they were, so that the
\* refresh token stored by an earlier login is still accepted by the refresh
\* that follows.
C36_FailedLoginWritesNothing ==
  [][/\ \A e \in run.emails, p \in Passwords :
          (/\ StepOf("login")
           /\ login([username |-> e, password |-> p])
           /\ LoginFails(e, p))
            => last'.status = 401 /\ Rejected
     /\ \A t \in Minted("refresh token") :
          (/\ last.op = "login" /\ last.status = 401
           /\ users[last.email] # None
           /\ users[last.email].refresh_token = t
           /\ ~decode_refresh_token(t).raised
           /\ StepOf("refresh_token")
           /\ refresh_token(t))
            => last'.status = 200 /\ last'.refresh_token # None]_vars

C36_Witness ==
  /\ last.op = "login" /\ last.status = 401 /\ last.detail = "Invalid password"
  /\ last.access_token = None /\ last.refresh_token = None
  /\ users[last.email].refresh_token # None
  /\ cache[last.email] # None

\* C37: a login, a refresh (answered 200 or with the forced logout) and a
\* confirmation for one email leave the rows of the other emails (their stored
\* refresh token and their confirmed flag) and the cache entries of the other
\* emails as they were, and the tokens a refresh returns have the subject of
\* the token that was presented.
C37_OnlySubjectRow ==
  [][/\ (StepOf("login") \/ StepOf("refresh_token") \/ StepOf("confirmed_email"))
          => \A o \in Emails \ {last'.email} :
               /\ users'[o] = users[o]
               /\ cache'[o] = cache[o]
     /\ \A t \in Minted("refresh token") :
          (/\ StepOf("refresh_token")
           /\ refresh_token(t)
           /\ ~decode_refresh_token(t).raised)
            => /\ last'.email = t.payload.sub
               /\ last'.status = 200 =>
                    /\ last'.access_token.payload.sub = t.payload.sub
                    /\ last'.refresh_token.payload.sub = t.payload.sub]_vars

\* a forced logout of one identity while the other has its session and its
\* cache entry
C37_Witness ==
  /\ last.op = "refresh_token" /\ last.detail = "Invalid refresh token"
  /\ users[last.email].refresh_token = None
  /\ \E o \in Emails \ {last.email} :
       /\ users[o] # None /\ users[o].confirmed
       /\ users[o].refresh_token # None
       /\ cache[o] # None
====
